---------------------------- MODULE Spec2Model ----------------------------
(***************************************************************************)
(* Drum-sync tempo tracker (src/main.py, src/function.py): the PID tempo   *)
(* controller, the beat matcher, and the orchestrator / metronome threads  *)
(* that share the controller's bpm.                                        *)
(*                                                                         *)
(* Numbers.  The program computes with Python floats.  Here every float is *)
(* a fixed-point integer, wide enough for errors of 1e6 s divided by a     *)
(* time step of 1e-4 s:                                                    *)
(*   - times (time.time(), t_actual, dt) are plain integers counting ticks *)
(*     of 1e-4 s;                                                          *)
(*   - error and prev_error are wide integers counting ticks;              *)
(*   - integral is a wide integer counting 1e-8 s^2 (tick * tick);         *)
(*   - bpm, bpm_min, bpm_max and delta are wide integers counting 1e-8 bpm.*)
(* A wide integer is a tuple of NLimbs limbs, least significant first, in  *)
(* base Base; the low limbs are in 0..Base-1 and the top limb carries the  *)
(* sign.  Python's None is the empty tuple and a present value x is <<x>>. *)
(***************************************************************************)
EXTENDS Integers, Sequences, FiniteSets, TLC

VARIABLES
    variant,     \* which PIDController class is running: "main" or "negfb"
    pid,         \* the PIDController object's fields
    now,         \* the wall clock time.time(), in ticks
    nUpdates,    \* number of update calls that have returned
    last,        \* the last update call: its argument, the object before it,
                 \* and self.bpm as line 107 stored it (before the clamp)
    matcher,     \* the BeatMatcher object's fields: dt, arr, next_idx
    nEvents,     \* number of compute_error calls made
    lastCall,    \* the last compute_error call: arguments, cursor before, result
    matchLog,    \* the successful matches so far, in order: <<inst, idx>>
    exhausted,   \* instruments for which compute_error has returned None
    pc,          \* orchestrator thread: its position inside update
    frame,       \* orchestrator thread: update's locals (error, delta), the
                 \* object on entry and self.bpm as line 107 stored it
    seen_bpm,    \* metronome thread: the value its last get_bpm() returned,
                 \* and how many update calls had returned when it read
    prog,        \* which program's main() runs: "serial" (src/main.py) or
                 \* "sim" (src/function.py:478-547); "none" outside a session
    events,      \* the shared deque of (now, inst) events, oldest first
    sensor,      \* the SensorReader / SimulatedSensor object and its thread
    metro,       \* the SimpleMetronome object and its thread
    orch,        \* main(): its position, the event in hand, how the loop ended
    appended,    \* every event the sensor thread has appended, in order
    removed,     \* every event main() has taken with popleft, in order
    tickLog,     \* the metronome's last two ticks, oldest first
    ioi          \* the RealtimeIOI object's fields

vars == <<variant, pid, now, nUpdates, last, matcher, nEvents, lastCall,
          matchLog, exhausted, pc, frame, seen_bpm, prog, events, sensor,
          metro, orch, appended, removed, tickLog, ioi>>

pidVars     == <<variant, pid, now, nUpdates, last>>
matcherVars == <<matcher, nEvents, lastCall, matchLog, exhausted>>
threadVars  == <<pc, frame, seen_bpm>>
sessionVars == <<prog, events, sensor, metro, orch, appended, removed,
                 tickLog>>

None == <<>>
Some(x) == <<x>>

Max(a, b) == IF a >= b THEN a ELSE b

----------------------------------------------------------------------------
(* Wide fixed-point integers standing for Python floats.                   *)

Base == 10000
NLimbs == 6

Limbs == 1..NLimbs

\* carries propagated from limb i upward; the top limb keeps what is left
RECURSIVE NormFrom(_, _, _)
NormFrom(raw, i, carry) ==
    IF i = NLimbs THEN << raw[i] + carry >>
    ELSE << (raw[i] + carry) % Base >>
            \o NormFrom(raw, i + 1, (raw[i] + carry) \div Base)

Norm(raw) == NormFrom(raw, 1, 0)

FromInt(n) == Norm([i \in Limbs |-> IF i = 1 THEN n ELSE 0])
Zero == [i \in Limbs |-> 0]

Add(a, b) == Norm([i \in Limbs |-> a[i] + b[i]])
Neg(a) == Norm([i \in Limbs |-> 0 - a[i]])
Sub(a, b) == Norm([i \in Limbs |-> a[i] - b[i]])
\* k * a for a plain integer k small enough that k * Base stays within 32 bits
Scale(k, a) == Norm([i \in Limbs |-> k * a[i]])

Sign(a) == IF a[NLimbs] < 0 THEN 0 - 1 ELSE IF a = Zero THEN 0 ELSE 1
Less(a, b) == Sign(Sub(a, b)) < 0
Leq(a, b) == Sign(Sub(a, b)) <= 0

\* long division from limb i downward, rem being what the higher limbs left
RECURSIVE QuotFrom(_, _, _, _)
QuotFrom(a, k, i, rem) ==
    IF i = 0 THEN << >>
    ELSE QuotFrom(a, k, i - 1, (rem * Base + a[i]) % k)
             \o << (rem * Base + a[i]) \div k >>

\* a / k for a plain integer k > 0, rounded down to the fixed-point grid
Quot(a, k) == QuotFrom(a, k, NLimbs, 0)

TicksPerSecond == 10000
\* s seconds as a wide count of ticks
Seconds(s) == Scale(TicksPerSecond, FromInt(s))
\* b beats per minute as a wide count of 1e-8 bpm
Bpm(b) == Scale(10000, Scale(10000, FromInt(b)))


----------------------------------------------------------------------------
(* PIDController (src/main.py:71-115, src/function.py:275-317, 617-664).   *)

\* Upper limits of the search.
MaxUpdates == 3

NominalDt == 100
Epsilon == 1

\* The constructor calls: main() of src/main.py, main() of the second
\* program of src/function.py (negative feedback), the scenario
\* PID(Kp=10, Ki=0, Kd=0, 120, 40, 240), and one with all three gains set.
MainConfig ==
    [variant |-> "main",  Kp |-> 30, Ki |-> 0, Kd |-> 5,
     initial_bpm |-> 120, bpm_min |-> 40, bpm_max |-> 240]

Configs ==
    { MainConfig,
      [variant |-> "negfb", Kp |-> 80, Ki |-> 0, Kd |-> 10,
       initial_bpm |-> 200, bpm_min |-> 60, bpm_max |-> 180],
      [variant |-> "main",  Kp |-> 10, Ki |-> 0, Kd |-> 0,
       initial_bpm |-> 120, bpm_min |-> 40, bpm_max |-> 240],
      [variant |-> "main",  Kp |-> 10, Ki |-> 2, Kd |-> 1,
       initial_bpm |-> 120, bpm_min |-> 40, bpm_max |-> 240] }

\* PIDController.__init__
NewPID(c) ==
    [ Kp |-> c.Kp, Ki |-> c.Ki, Kd |-> c.Kd,
      integral |-> Zero, prev_error |-> Zero, prev_time |-> None,
      bpm |-> Bpm(c.initial_bpm),
      bpm_min |-> Bpm(c.bpm_min), bpm_max |-> Bpm(c.bpm_max) ]

\* The errors (seconds) handed to update, and the clock's advance (ticks)
\* between two readings of time.time(); the clock may stand still or be
\* set back.
ErrorSet == { Seconds(0 - 1000000), Seconds(0 - 1), Zero, Seconds(1),
              Seconds(1000000) }
ClockSteps == { 0 - 100, 0, 4, 5000 }

\* StepDt with the first call's nominal step mistaken for the lower limit
StepDtFirstEpsilon(p, t) ==
    IF p.prev_time = None THEN Epsilon
                          ELSE Max(t - p.prev_time[1], Epsilon)

\* StepDt with a lower limit that grows with the number of calls made so
\* far, which is no field of the object
StepDtByCallCount(p, t) ==
    IF p.prev_time = None THEN NominalDt
                          ELSE Max(t - p.prev_time[1], Epsilon + nUpdates)

\* StepDt with a lower limit of 2e-4 s
StepDtDoubleFloor(p, t) ==
    IF p.prev_time = None THEN NominalDt
                          ELSE Max(t - p.prev_time[1], 2 * Epsilon)

\* update, lines 91-95: the time step of a call made at clock reading t
StepDt(p, t) ==
    IF p.prev_time = None THEN NominalDt
                          ELSE Max(t - p.prev_time[1], Epsilon)

\* Integrate accumulating only when the integral gain is set
IntegrateIfKi(p, error, dt) ==
    IF p.Ki = 0 THEN p.integral ELSE Add(p.integral, Scale(dt, error))

\* update, line 100: self.integral += error * dt
Integrate(p, error, dt) == Add(p.integral, Scale(dt, error))

\* update, line 101: D = (error - self.prev_error) / dt, in 1e-8 units
Derivative(p, error, dt) ==
    Quot(Scale(10000, Scale(10000, Sub(error, p.prev_error))), dt)

\* update, line 104 (function.py:652 negates it): delta, given the object
\* as it was when update was entered
Delta(v, p, error, dt) ==
    LET P == Scale(10000, error)
        sum == Add(Add(Scale(p.Kp, P), Scale(p.Ki, Integrate(p, error, dt))),
                   Scale(p.Kd, Derivative(p, error, dt)))
    IN  IF v = "negfb" THEN Neg(sum) ELSE sum

\* update, lines 91-102: the stores to prev_time, integral and prev_error
Accumulate(p, error, t) ==
    [p EXCEPT !.prev_time = Some(t),
              !.integral = Integrate(p, error, StepDt(p, t)),
              !.prev_error = error]

\* update, line 107: self.bpm += delta
AddDelta(p, delta) == [p EXCEPT !.bpm = Add(p.bpm, delta)]

\* Clamp without its upper branch
ClampNoUpper(p) ==
    IF Less(p.bpm, p.bpm_min)
        THEN [p EXCEPT !.bpm = p.bpm_min, !.integral = Zero]
    ELSE p

\* Clamp without the integral reset
ClampKeepIntegral(p) ==
    IF Less(p.bpm, p.bpm_min) THEN [p EXCEPT !.bpm = p.bpm_min]
    ELSE IF Less(p.bpm_max, p.bpm) THEN [p EXCEPT !.bpm = p.bpm_max]
    ELSE p

\* update, lines 108-113: the clamp and the integral reset
Clamp(p) ==
    IF Less(p.bpm, p.bpm_min)
        THEN [p EXCEPT !.bpm = p.bpm_min, !.integral = Zero]
    ELSE IF Less(p.bpm_max, p.bpm)
        THEN [p EXCEPT !.bpm = p.bpm_max, !.integral = Zero]
    ELSE p

\* the object after line 107 of a call update(error) made at clock reading t
Unclamped(v, p, error, t) ==
    AddDelta(Accumulate(p, error, t), Delta(v, p, error, StepDt(p, t)))

\* the object when update(error), called at clock reading t, returns
UpdateCall(v, p, error, t) == Clamp(Unclamped(v, p, error, t))

PIDIdle ==
    /\ variant = MainConfig.variant
    /\ pid = NewPID(MainConfig)
    /\ now = 0
    /\ nUpdates = 0
    /\ last = None

MatcherIdle ==
    /\ matcher = [dt |-> 1, arr |-> <<>>, next_idx |-> <<>>]
    /\ nEvents = 0
    /\ lastCall = None
    /\ matchLog = <<>>
    /\ exhausted = {}

ThreadsIdle ==
    /\ pc = "idle"
    /\ frame = None
    /\ seen_bpm = None

\* a sensor and a metronome that no main() has constructed
NoSensor ==
    [ pc |-> "none", running |-> FALSE, finished |-> FALSE, ser |-> None,
      start_time |-> None, schedule |-> << >>, k |-> 0, target |-> None ]
NoMetronome ==
    [ pc |-> "none", running |-> FALSE, next_tick |-> None, bpm |-> None ]

\* no RealtimeIOI has been constructed
IOIIdle == ioi = None

SessionIdle ==
    /\ prog = "none"
    /\ events = << >>
    /\ sensor = NoSensor
    /\ metro = NoMetronome
    /\ orch = [pc |-> "none", ev |-> None, how |-> "none"]
    /\ appended = << >>
    /\ removed = << >>
    /\ tickLog = << >>

InitPID ==
    /\ \E c \in Configs : variant = c.variant /\ pid = NewPID(c)
    /\ now = 0
    /\ nUpdates = 0
    /\ last = None
    /\ MatcherIdle
    /\ ThreadsIdle
    /\ IOIIdle
    /\ SessionIdle

\* one whole call pid.update(error), the clock having advanced by step
Update ==
    \E error \in ErrorSet, step \in ClockSteps :
        /\ nUpdates < MaxUpdates
        /\ now' = now + step
        /\ pid' = UpdateCall(variant, pid, error, now')
        /\ last' = Some([error |-> error, pre |-> pid,
                         raw |-> Unclamped(variant, pid, error, now').bpm])
        /\ nUpdates' = nUpdates + 1
        /\ UNCHANGED <<variant, matcherVars, threadVars,
                     sessionVars, ioi>>

NextPID == Update

SpecPID == InitPID /\ [][NextPID]_vars

\* proportional-only controllers of both classes, tempo well inside the
\* bounds: PIDController(Kp, 0.0, 0.0, initial_bpm, min_bpm, max_bpm) of
\* src/main.py:75-83 and of src/function.py:621-629
SignConfigs ==
    { [variant |-> "main", Kp |-> 10, Ki |-> 0, Kd |-> 0,
       initial_bpm |-> 120, bpm_min |-> 40, bpm_max |-> 240],
      [variant |-> "negfb", Kp |-> 10, Ki |-> 0, Kd |-> 0,
       initial_bpm |-> 120, bpm_min |-> 60, bpm_max |-> 180] }

InitSign ==
    /\ \E c \in SignConfigs : variant = c.variant /\ pid = NewPID(c)
    /\ now = 0
    /\ nUpdates = 0
    /\ last = None
    /\ MatcherIdle
    /\ ThreadsIdle
    /\ IOIIdle
    /\ SessionIdle

SpecSign == InitSign /\ [][NextPID]_vars

----------------------------------------------------------------------------
(* BeatMatcher (src/main.py:121-168, src/function.py:323-365, 670-706).    *)
(* Indices are the program's: the first slot of a track is index 0.        *)

MaxEvents == 4

\* The reference data handed to the constructor: the track [1,0,0,1,0,0]
\* with 0.5 s per slot among them, an empty track, and a track of zeros.
BeatMaps ==
    { [dt |-> 5000, kick |-> <<1, 0, 0, 1, 0, 0>>, snare |-> << >>,
       hit |-> <<0, 1, 1>>],
      [dt |-> 1250, kick |-> <<0, 0>>, snare |-> <<1, 1, 0>>,
       hit |-> <<1>>] }

\* BeatMatcher.__init__
NewMatcher(ref) ==
    [ dt |-> ref.dt,
      arr |-> [k \in {"kick", "snare", "hit"} |-> ref[k]],
      next_idx |-> [k \in {"kick", "snare", "hit"} |-> 0] ]

\* The events handed to compute_error: the three instruments and one the
\* BeatMap does not hold; strike times 0 s, 0.55 s and 1.0 s.
EventInsts == {"kick", "snare", "hit", "tom"}
EventTimes == {0, 5500, 10000}

\* _find_next_beat's loop, lines 143-147
RECURSIVE ScanFrom(_, _)
ScanFrom(arr, i) ==
    IF i < Len(arr)
        THEN IF arr[i + 1] = 1 THEN Some(i) ELSE ScanFrom(arr, i + 1)
        ELSE None

\* _find_next_beat scanning the whole track, whatever start is
FindNextBeatFromZero(m, inst, start) == ScanFrom(m.arr[inst], 0)

\* _find_next_beat
FindNextBeat(m, inst, start) == ScanFrom(m.arr[inst], start)

\* compute_error, lines 155-161: the index matched, None when the
\* instrument is unknown or its track has no beat left
MatchIdx(m, inst) ==
    IF inst \notin DOMAIN m.arr THEN None
    ELSE FindNextBeat(m, inst, m.next_idx[inst])

\* compute_error's return value with the subtraction of line 164 reversed
ComputeErrorRetReversed(m, inst, t_actual) ==
    IF MatchIdx(m, inst) = None THEN None
    ELSE Some(MatchIdx(m, inst)[1] * m.dt - t_actual)

\* compute_error's return value: None, or the error of lines 163-164
ComputeErrorRet(m, inst, t_actual) ==
    IF MatchIdx(m, inst) = None THEN None
    ELSE Some(t_actual - MatchIdx(m, inst)[1] * m.dt)

\* compute_error leaving the cursor on the matched beat
ComputeErrorObjNoAdvance(m, inst) ==
    IF MatchIdx(m, inst) = None THEN m
    ELSE [m EXCEPT !.next_idx[inst] = MatchIdx(m, inst)[1]]

\* compute_error starting an exhausted track over
ComputeErrorObjRewind(m, inst) ==
    IF inst \notin DOMAIN m.arr THEN m
    ELSE IF MatchIdx(m, inst) = None THEN [m EXCEPT !.next_idx[inst] = 0]
    ELSE [m EXCEPT !.next_idx[inst] = MatchIdx(m, inst)[1] + 1]

\* compute_error keeping one cursor for all the instruments
ComputeErrorObjShared(m, inst) ==
    IF MatchIdx(m, inst) = None THEN m
    ELSE [m EXCEPT !.next_idx =
              [k \in DOMAIN m.next_idx |-> MatchIdx(m, inst)[1] + 1]]

\* compute_error's effect on the matcher: line 167, or none
ComputeErrorObj(m, inst) ==
    IF MatchIdx(m, inst) = None THEN m
    ELSE [m EXCEPT !.next_idx[inst] = MatchIdx(m, inst)[1] + 1]

\* make_A_from_binary, src/function.py:20-28: the times idx * time_unit
\* of the indices idx holding 1, in ascending order (np.where), from
\* index i on
RECURSIVE MakeAFrom(_, _, _)
MakeAFrom(bin_arr, time_unit, i) ==
    IF i >= Len(bin_arr) THEN << >>
    ELSE (IF bin_arr[i + 1] = 1 THEN << i * time_unit >> ELSE << >>)
             \o MakeAFrom(bin_arr, time_unit, i + 1)

make_A_from_binary(bin_arr, time_unit) == MakeAFrom(bin_arr, time_unit, 0)

InitMatcher ==
    /\ PIDIdle
    /\ \E ref \in BeatMaps : matcher = NewMatcher(ref)
    /\ nEvents = 0
    /\ lastCall = None
    /\ matchLog = << >>
    /\ exhausted = {}
    /\ ThreadsIdle
    /\ IOIIdle
    /\ SessionIdle

\* one whole call matcher.compute_error(inst, t_actual)
ComputeError ==
    \E inst \in EventInsts, t_actual \in EventTimes :
        /\ nEvents < MaxEvents
        /\ matcher' = ComputeErrorObj(matcher, inst)
        /\ lastCall' = Some([ inst |-> inst, t_actual |-> t_actual,
                              start |-> IF inst \in DOMAIN matcher.arr
                                        THEN Some(matcher.next_idx[inst])
                                        ELSE None,
                              idx |-> MatchIdx(matcher, inst),
                              ret |-> ComputeErrorRet(matcher, inst, t_actual),
                              exhaustedBefore |-> exhausted ])
        /\ matchLog' = IF MatchIdx(matcher, inst) = None THEN matchLog
                       ELSE Append(matchLog, <<inst, MatchIdx(matcher, inst)[1]>>)
        /\ exhausted' = IF /\ inst \in DOMAIN matcher.arr
                           /\ ComputeErrorRet(matcher, inst, t_actual) = None
                        THEN exhausted \cup {inst} ELSE exhausted
        /\ nEvents' = nEvents + 1
        /\ UNCHANGED <<pidVars, threadVars,
                     sessionVars, ioi>>

NextMatcher == ComputeError

SpecMatcher == InitMatcher /\ [][NextMatcher]_vars

----------------------------------------------------------------------------
(* The orchestrator thread inside pid.update and the metronome thread      *)
(* reading pid.bpm through get_bpm = lambda: pid.bpm (src/main.py:304,     *)
(* 256; src/function.py:509, 829).  No lock guards pid.bpm, so a read may  *)
(* fall between any two of update's stores.                                *)

MaxSessionUpdates == 2

InitThreads ==
    /\ \E c \in Configs : variant = c.variant /\ pid = NewPID(c)
    /\ now = 0
    /\ nUpdates = 0
    /\ last = None
    /\ MatcherIdle
    /\ ThreadsIdle
    /\ IOIIdle
    /\ SessionIdle

\* update, lines 91-104: the clock is read, integral, prev_error and
\* prev_time are stored, delta is computed
UpdateEnter ==
    \E error \in ErrorSet, step \in ClockSteps :
        /\ pc = "idle"
        /\ nUpdates < MaxSessionUpdates
        /\ now' = now + step
        /\ pid' = Accumulate(pid, error, now')
        /\ frame' = Some([error |-> error, pre |-> pid, raw |-> pid.bpm,
                          delta |-> Delta(variant, pid, error, StepDt(pid, now'))])
        /\ pc' = "add"
        /\ UNCHANGED <<variant, nUpdates, last, matcherVars, seen_bpm,
                     sessionVars, ioi>>

\* update, line 107: self.bpm += delta
UpdateAdd ==
    /\ pc = "add"
    /\ pid' = AddDelta(pid, frame[1].delta)
    /\ frame' = Some([frame[1] EXCEPT !.raw = pid'.bpm])
    /\ pc' = "clamp"
    /\ UNCHANGED <<variant, now, nUpdates, last, matcherVars, seen_bpm,
                     sessionVars, ioi>>

\* update, lines 108-109 and 111-112: the tests and the store to self.bpm
UpdateClamp ==
    /\ pc = "clamp"
    /\ pid' = [pid EXCEPT !.bpm = Clamp(pid).bpm]
    /\ pc' = IF Clamp(pid).bpm # pid.bpm THEN "reset" ELSE "return"
    /\ UNCHANGED <<variant, now, nUpdates, last, frame, matcherVars, seen_bpm,
                     sessionVars, ioi>>

\* update, lines 110 and 113: self.integral = 0.0
UpdateReset ==
    /\ pc = "reset"
    /\ pid' = [pid EXCEPT !.integral = Zero]
    /\ pc' = "return"
    /\ UNCHANGED <<variant, now, nUpdates, last, frame, matcherVars, seen_bpm,
                     sessionVars, ioi>>

\* update, line 115: return self.bpm
UpdateReturn ==
    /\ pc = "return"
    /\ last' = Some([error |-> frame[1].error, pre |-> frame[1].pre,
                     raw |-> frame[1].raw])
    /\ nUpdates' = nUpdates + 1
    /\ frame' = None
    /\ pc' = "idle"
    /\ UNCHANGED <<variant, pid, now, matcherVars, seen_bpm,
                     sessionVars, ioi>>

\* SimpleMetronome.run, line 256: bpm = self.get_bpm()
MetroRead ==
    /\ seen_bpm' = Some([bpm |-> pid.bpm, after |-> nUpdates])
    /\ UNCHANGED <<pidVars, matcherVars, pc, frame,
                     sessionVars, ioi>>

NextThreads ==
    \/ UpdateEnter
    \/ UpdateAdd
    \/ UpdateClamp
    \/ UpdateReset
    \/ UpdateReturn
    \/ MetroRead

SpecThreads == InitThreads /\ [][NextThreads]_vars

----------------------------------------------------------------------------
(* A whole session: main() loading the reference data, starting the sensor *)
(* thread and the metronome thread, draining the event deque, and shutting *)
(* down (src/main.py:275-339 with SensorReader, src/function.py:478-547    *)
(* with SimulatedSensor).  Each thread advances one statement, or one      *)
(* group of statements that touch no shared object, at a time.             *)

\* the wall clock is read in whole granules of 0.25 s; a thread that
\* waits for a later time takes the clock there
ClockGranule == 2500

\* the first clock reading at or after time t
ReadingFrom(t) == ((t + ClockGranule - 1) \div ClockGranule) * ClockGranule
\* most events the serial sensor delivers in a session
MaxLines == 2

\* drum_sync_data.txt as load_drum_sync_data parses it: a good file with
\* 0.5 s per slot, one lacking its bpm line, one with
\* samples_per_array_element 0, one whose three tracks are empty, one
\* with sensor_rate_hz 0, and one with samples_per_array_element -500
\* (float() takes a sign)
DrumFiles ==
    { [bpm |-> Some(120), sensor_rate_hz |-> Some(1000),
       samples_per_array_element |-> Some(500),
       kick |-> <<1, 0, 1>>, snare |-> <<0, 1>>, hit |-> << >>],
      [bpm |-> None, sensor_rate_hz |-> Some(1000),
       samples_per_array_element |-> Some(500),
       kick |-> <<1, 0, 1>>, snare |-> <<0, 1>>, hit |-> << >>],
      [bpm |-> Some(120), sensor_rate_hz |-> Some(1000),
       samples_per_array_element |-> Some(0),
       kick |-> <<0, 1>>, snare |-> << >>, hit |-> << >>],
      [bpm |-> Some(120), sensor_rate_hz |-> Some(1000),
       samples_per_array_element |-> Some(500),
       kick |-> << >>, snare |-> << >>, hit |-> << >>],
      [bpm |-> Some(120), sensor_rate_hz |-> Some(0),
       samples_per_array_element |-> Some(500),
       kick |-> <<1>>, snare |-> << >>, hit |-> << >>],
      [bpm |-> Some(120), sensor_rate_hz |-> Some(1000),
       samples_per_array_element |-> Some(0 - 500),
       kick |-> <<1, 1>>, snare |-> << >>, hit |-> << >>] }

\* load_drum_sync_data, lines 51-55: the exception raised, if any
LoadRaises(file) ==
    IF \/ file.bpm = None
       \/ file.sensor_rate_hz = None
       \/ file.samples_per_array_element = None
        THEN Some("ValueError")
    ELSE IF file.sensor_rate_hz[1] = 0 THEN Some("ZeroDivisionError")
    ELSE None

\* load_drum_sync_data, lines 55-65: the dictionary returned, with
\* time_per_array_element (here dt) in ticks
LoadReturns(file) ==
    [ bpm |-> file.bpm[1],
      dt |-> (file.samples_per_array_element[1] * TicksPerSecond)
                 \div file.sensor_rate_hz[1],
      kick |-> file.kick, snare |-> file.snare, hit |-> file.hit ]

\* the PIDController main() builds: src/main.py:288-295 and
\* src/function.py:490-497
SessionConfig(p, bpm) ==
    IF p = "serial"
        THEN [variant |-> "main", Kp |-> 30, Ki |-> 0, Kd |-> 5,
              initial_bpm |-> bpm, bpm_min |-> 40, bpm_max |-> 240]
        ELSE [variant |-> "main", Kp |-> 25, Ki |-> 0, Kd |-> 8,
              initial_bpm |-> bpm, bpm_min |-> 40, bpm_max |-> 240]

\* SensorReader.__init__
NewSensorReader ==
    [ pc |-> "none", running |-> FALSE, finished |-> FALSE, ser |-> None,
      start_time |-> None, schedule |-> << >>, k |-> 0, target |-> None ]

\* the dict self.arr of SimulatedSensor is walked in insertion order
Instruments == <<"kick", "snare", "hit">>

\* SimulatedSensor.__init__, lines 396-400: the (t_ref, inst) pairs of one
\* track from slot i on
RECURSIVE TrackBeats(_, _, _, _)
TrackBeats(arr, inst, dt, i) ==
    IF i >= Len(arr) THEN << >>
    ELSE (IF arr[i + 1] = 1 THEN << [t_ref |-> i * dt, inst |-> inst] >>
                            ELSE << >>)
             \o TrackBeats(arr, inst, dt, i + 1)

\* list.sort(key=t_ref) is stable: x goes behind every pair whose t_ref is
\* not larger
RECURSIVE InsertByTime(_, _)
InsertByTime(sorted, x) ==
    IF sorted = << >> THEN << x >>
    ELSE IF sorted[Len(sorted)].t_ref <= x.t_ref THEN Append(sorted, x)
    ELSE Append(InsertByTime(SubSeq(sorted, 1, Len(sorted) - 1), x),
                sorted[Len(sorted)])

RECURSIVE SortByTime(_, _)
SortByTime(sorted, rest) ==
    IF rest = << >> THEN sorted
    ELSE SortByTime(InsertByTime(sorted, Head(rest)), Tail(rest))

\* SimulatedSensor.__init__, lines 394-402
Schedule(ref) ==
    SortByTime(<< >>, TrackBeats(ref.kick, Instruments[1], ref.dt, 0)
                        \o TrackBeats(ref.snare, Instruments[2], ref.dt, 0)
                        \o TrackBeats(ref.hit, Instruments[3], ref.dt, 0))

\* SimulatedSensor.__init__: timing_offset_ms = 40 and jitter_ms = 10 as
\* main() passes them, in ticks; random.uniform draws one of the extremes
SimOffset == 400
SimJitters == {0 - 100, 100}

NewSimulatedSensor(ref) ==
    [ pc |-> "none", running |-> TRUE, finished |-> FALSE, ser |-> None,
      start_time |-> None, schedule |-> Schedule(ref), k |-> 0,
      target |-> None ]

\* SimpleMetronome.__init__
NewMetronome ==
    [ pc |-> "none", running |-> TRUE, next_tick |-> None, bpm |-> None ]

InitSession ==
    /\ PIDIdle
    /\ MatcherIdle
    /\ ThreadsIdle
    /\ IOIIdle
    /\ prog \in {"serial", "sim"}
    /\ events = << >>
    /\ sensor = NoSensor
    /\ metro = NoMetronome
    /\ orch = [pc |-> "load", ev |-> None, how |-> "none"]
    /\ appended = << >>
    /\ removed = << >>
    /\ tickLog = << >>

\* main(), src/main.py:277-300 and src/function.py:480-503: load the
\* reference data; a raised exception ends main() there; otherwise build
\* the matcher, the controller, the deque and the sensor object
MainLoad ==
    \E file \in DrumFiles :
        /\ orch.pc = "load"
        /\ IF LoadRaises(file) # None
             THEN /\ orch' = [orch EXCEPT !.pc = "raised",
                                          !.how = LoadRaises(file)[1]]
                  /\ UNCHANGED <<pid, matcher, sensor>>
             ELSE /\ matcher' = NewMatcher(LoadReturns(file))
                  /\ pid' = NewPID(SessionConfig(prog, LoadReturns(file).bpm))
                  /\ sensor' = IF prog = "serial"
                                 THEN NewSensorReader
                                 ELSE NewSimulatedSensor(LoadReturns(file))
                  /\ orch' = [orch EXCEPT !.pc = "start_sensor"]
        /\ UNCHANGED <<variant, now, nUpdates, last, nEvents, lastCall,
                       matchLog, exhausted, threadVars, prog, events, metro,
                       appended, removed, tickLog, ioi>>

\* main(), src/main.py:301 and src/function.py:504: sensor.start()
MainStartSensor ==
    /\ orch.pc = "start_sensor"
    /\ sensor' = [sensor EXCEPT !.pc = "run"]
    /\ orch' = [orch EXCEPT !.pc = "start_metro"]
    /\ UNCHANGED <<pidVars, matcherVars, threadVars, prog, events, metro,
                   appended, removed, tickLog, ioi>>

\* main(), src/main.py:304-305 and src/function.py:507-508: build and
\* start the metronome, then enter the try block
MainStartMetro ==
    /\ orch.pc = "start_metro"
    /\ metro' = [NewMetronome EXCEPT !.pc = "run"]
    /\ orch' = [orch EXCEPT !.pc = "loop"]
    /\ UNCHANGED <<pidVars, matcherVars, threadVars, prog, events, sensor,
                   appended, removed, tickLog, ioi>>

----------------------------------------------------------------------------
(* SimulatedSensor.run (src/function.py:404-437).                          *)

\* lines 405-410: an empty schedule finishes at once; otherwise the start
\* time is read
SimRun ==
    /\ prog = "sim"
    /\ sensor.pc = "run"
    /\ sensor' = IF sensor.schedule = << >>
                   THEN [sensor EXCEPT !.finished = TRUE, !.pc = "done"]
                   ELSE [sensor EXCEPT !.start_time = Some(now), !.k = 1,
                                       !.pc = "for"]
    /\ UNCHANGED <<pidVars, matcherVars, threadVars, prog, events, metro,
                   orch, appended, removed, tickLog, ioi>>

\* lines 414-423: the next pair of the schedule, if any; self.running is
\* tested and the target time of the strike is drawn
SimFor ==
    /\ prog = "sim"
    /\ sensor.pc = "for"
    /\ IF sensor.k > Len(sensor.schedule) \/ ~sensor.running
         THEN sensor' = [sensor EXCEPT !.pc = "finish"]
         ELSE \E jitter \in SimJitters :
                sensor' = [sensor EXCEPT
                    !.target = Some(sensor.start_time[1]
                                    + sensor.schedule[sensor.k].t_ref
                                    + SimOffset + jitter),
                    !.pc = "wait"]
    /\ UNCHANGED <<pidVars, matcherVars, threadVars, prog, events, metro,
                   orch, appended, removed, tickLog, ioi>>

\* lines 425-426: sleep in steps of 1 ms until the target time, or until
\* self.running is seen False
SimWait ==
    /\ prog = "sim"
    /\ sensor.pc = "wait"
    /\ now' = IF sensor.running THEN Max(now, ReadingFrom(sensor.target[1]))
                                ELSE now
    /\ sensor' = [sensor EXCEPT !.pc = "check"]
    /\ UNCHANGED <<variant, pid, nUpdates, last, matcherVars, threadVars,
                   prog, events, metro, orch, appended, removed, tickLog,
                   ioi>>

\* lines 428-429 with a return in place of the break
SimCheckReturn ==
    /\ prog = "sim"
    /\ sensor.pc = "check"
    /\ sensor' = [sensor EXCEPT
                    !.pc = IF sensor.running THEN "append" ELSE "done"]
    /\ UNCHANGED <<pidVars, matcherVars, threadVars, prog, events, metro,
                   orch, appended, removed, tickLog, ioi>>

\* lines 428-429: if not self.running: break
SimCheck ==
    /\ prog = "sim"
    /\ sensor.pc = "check"
    /\ sensor' = [sensor EXCEPT
                    !.pc = IF sensor.running THEN "append" ELSE "finish"]
    /\ UNCHANGED <<pidVars, matcherVars, threadVars, prog, events, metro,
                   orch, appended, removed, tickLog, ioi>>

\* lines 431-433: self.events.append((now, inst))
SimAppend ==
    /\ prog = "sim"
    /\ sensor.pc = "append"
    /\ events' = Append(events,
                        [t |-> now - sensor.start_time[1],
                         inst |-> sensor.schedule[sensor.k].inst])
    /\ appended' = Append(appended,
                          [t |-> now - sensor.start_time[1],
                           inst |-> sensor.schedule[sensor.k].inst])
    /\ sensor' = [sensor EXCEPT !.k = sensor.k + 1, !.target = None,
                                !.pc = "for"]
    /\ UNCHANGED <<pidVars, matcherVars, threadVars, prog, metro, orch,
                   removed, tickLog, ioi>>

\* line 436: self.finished = True, and the thread ends
SimFinish ==
    /\ prog = "sim"
    /\ sensor.pc = "finish"
    /\ sensor' = [sensor EXCEPT !.finished = TRUE, !.pc = "done"]
    /\ UNCHANGED <<pidVars, matcherVars, threadVars, prog, events, metro,
                   orch, appended, removed, tickLog, ioi>>

----------------------------------------------------------------------------
(* SensorReader.run and open (src/main.py:189-228).                        *)

\* time.sleep(2) of open, in ticks
OpenSettle == 20000

\* the lines readline() returns, as sequences of characters: nothing within
\* the timeout, and lines with and without the letters K, S, H
SerialLines == { << >>, <<"K">>, <<"h", "s">>, <<"H">>, <<"x">> }

\* str.upper on the letters that matter
Upper(c) ==
    CASE c = "k" -> "K" [] c = "s" -> "S" [] c = "h" -> "H" [] OTHER -> c

Has(line, c) == \E i \in 1..Len(line) : Upper(line[i]) = c

\* run, lines 210-217: the instrument a line stands for
Classify(line) ==
    IF Has(line, "K") THEN Some("kick")
    ELSE IF Has(line, "S") THEN Some("snare")
    ELSE IF Has(line, "H") THEN Some("hit")
    ELSE None

\* run, lines 197-198, and open, line 190: the port is opened, or
\* serial.Serial raises and the thread ends
SensorRun ==
    /\ prog = "serial"
    /\ sensor.pc = "run"
    /\ \/ sensor' = [sensor EXCEPT !.pc = "done"]
       \/ sensor' = [sensor EXCEPT !.ser = Some("open"),
                                   !.target = Some(now + OpenSettle),
                                   !.pc = "settle"]
    /\ UNCHANGED <<pidVars, matcherVars, threadVars, prog, events, metro,
                   orch, appended, removed, tickLog, ioi>>

\* open, lines 191-193: the sleep ends; self.running = True and
\* self.start_time = time.time()
SensorOpened ==
    /\ prog = "serial"
    /\ sensor.pc = "settle"
    /\ now' = Max(now, ReadingFrom(sensor.target[1]))
    /\ sensor' = [sensor EXCEPT !.running = TRUE, !.start_time = Some(now'),
                                !.target = None, !.pc = "loop"]
    /\ UNCHANGED <<variant, pid, nUpdates, last, matcherVars, threadVars,
                   prog, events, metro, orch, appended, removed, tickLog,
                   ioi>>

\* run, line 203: while self.running
SensorLoopTest ==
    /\ prog = "serial"
    /\ sensor.pc = "loop"
    /\ sensor' = [sensor EXCEPT
                    !.pc = IF sensor.running THEN "read" ELSE "close"]
    /\ UNCHANGED <<pidVars, matcherVars, threadVars, prog, events, metro,
                   orch, appended, removed, tickLog, ioi>>

\* run, lines 204-223: one line is read and, if it names an instrument,
\* (now, inst) is appended to the deque; such a line arrives one clock
\* granule after the last
SensorRead ==
    \E line \in SerialLines :
        /\ prog = "serial"
        /\ sensor.pc = "read"
        /\ IF line # << >> /\ Classify(line) # None
             THEN /\ Len(appended) < MaxLines
                  /\ now' = now + ClockGranule
                  /\ events' = Append(events,
                                      [t |-> now' - sensor.start_time[1],
                                       inst |-> Classify(line)[1]])
                  /\ appended' = Append(appended,
                                        [t |-> now' - sensor.start_time[1],
                                         inst |-> Classify(line)[1]])
             ELSE UNCHANGED <<now, events, appended>>
        /\ sensor' = [sensor EXCEPT !.pc = "loop"]
        /\ UNCHANGED <<variant, pid, nUpdates, last, matcherVars, threadVars,
                       prog, metro, orch, removed, tickLog, ioi>>

\* run, lines 225-228: the port is closed and the thread ends
SensorClose ==
    /\ prog = "serial"
    /\ sensor.pc = "close"
    /\ sensor' = [sensor EXCEPT !.ser = Some("closed"), !.pc = "done"]
    /\ UNCHANGED <<pidVars, matcherVars, threadVars, prog, events, metro,
                   orch, appended, removed, tickLog, ioi>>

----------------------------------------------------------------------------
(* main()'s loop and shutdown (src/main.py:310-339,                        *)
(* src/function.py:516-547).                                               *)

\* stop() of SensorReader, SimulatedSensor and SimpleMetronome with the
\* flag flipped instead of cleared
StopToggle(obj) == [obj EXCEPT !.running = ~obj.running]

\* stop() of SensorReader, SimulatedSensor and SimpleMetronome:
\* self.running = False
Stop(obj) == [obj EXCEPT !.running = FALSE]

\* src/main.py:312 with get_event's test at line 231: an empty deque makes
\* the loop sleep and come back
MainGetEvent ==
    /\ prog = "serial"
    /\ orch.pc = "loop"
    /\ orch' = [orch EXCEPT !.pc = IF events # << >> THEN "pop" ELSE "loop"]
    /\ UNCHANGED <<pidVars, matcherVars, threadVars, prog, events, sensor,
                   metro, appended, removed, tickLog, ioi>>

\* src/function.py:520: while events
MainWhileEvents ==
    /\ prog = "sim"
    /\ orch.pc = "loop"
    /\ orch' = [orch EXCEPT
                  !.pc = IF events # << >> THEN "pop" ELSE "exit_finished"]
    /\ UNCHANGED <<pidVars, matcherVars, threadVars, prog, events, sensor,
                   metro, appended, removed, tickLog, ioi>>

\* the event taken from the right end of the deque, as events.pop() would
MainPopRight ==
    /\ orch.pc = "pop"
    /\ events' = SubSeq(events, 1, Len(events) - 1)
    /\ removed' = Append(removed, events[Len(events)])
    /\ orch' = [orch EXCEPT !.ev = Some(events[Len(events)]), !.pc = "process"]
    /\ UNCHANGED <<pidVars, matcherVars, threadVars, prog, sensor, metro,
                   appended, tickLog, ioi>>

\* src/main.py:232 and src/function.py:521: events.popleft()
MainPopleft ==
    /\ orch.pc = "pop"
    /\ events' = Tail(events)
    /\ removed' = Append(removed, Head(events))
    /\ orch' = [orch EXCEPT !.ev = Some(Head(events)), !.pc = "process"]
    /\ UNCHANGED <<pidVars, matcherVars, threadVars, prog, sensor, metro,
                   appended, tickLog, ioi>>

\* the loop body calling pid.update(0.0) for an event compute_error
\* returned None for
MainProcessNoneAsZero ==
    /\ orch.pc = "process"
    /\ LET inst == orch.ev[1].inst
           t_actual == orch.ev[1].t
           ret == ComputeErrorRet(matcher, inst, t_actual)
       IN  /\ matcher' = ComputeErrorObj(matcher, inst)
           /\ lastCall' = Some([ inst |-> inst, t_actual |-> t_actual,
                                 start |-> Some(matcher.next_idx[inst]),
                                 idx |-> MatchIdx(matcher, inst),
                                 ret |-> ret,
                                 exhaustedBefore |-> exhausted ])
           /\ matchLog' = IF MatchIdx(matcher, inst) = None THEN matchLog
                          ELSE Append(matchLog,
                                      <<inst, MatchIdx(matcher, inst)[1]>>)
           /\ exhausted' = IF ret = None THEN exhausted \cup {inst}
                           ELSE exhausted
           /\ nEvents' = nEvents + 1
           /\ \E error \in { IF ret = None THEN Zero ELSE FromInt(ret[1]) } :
                /\ pid' = UpdateCall(variant, pid, error, now)
                /\ last' = Some([error |-> error, pre |-> pid,
                                 raw |-> Unclamped(variant, pid, error, now).bpm])
                /\ nUpdates' = nUpdates + 1
    /\ orch' = [orch EXCEPT !.ev = None, !.pc = "loop"]
    /\ UNCHANGED <<variant, now, threadVars, prog, events, sensor, metro,
                   appended, removed, tickLog, ioi>>

\* src/main.py:318-329 and src/function.py:522-532: compute_error on the
\* event in hand and, unless it returns None, pid.update
MainProcess ==
    /\ orch.pc = "process"
    /\ LET inst == orch.ev[1].inst
           t_actual == orch.ev[1].t
           ret == ComputeErrorRet(matcher, inst, t_actual)
       IN  /\ matcher' = ComputeErrorObj(matcher, inst)
           /\ lastCall' = Some([ inst |-> inst, t_actual |-> t_actual,
                                 start |-> Some(matcher.next_idx[inst]),
                                 idx |-> MatchIdx(matcher, inst),
                                 ret |-> ret,
                                 exhaustedBefore |-> exhausted ])
           /\ matchLog' = IF MatchIdx(matcher, inst) = None THEN matchLog
                          ELSE Append(matchLog,
                                      <<inst, MatchIdx(matcher, inst)[1]>>)
           /\ exhausted' = IF ret = None THEN exhausted \cup {inst}
                           ELSE exhausted
           /\ nEvents' = nEvents + 1
           /\ IF ret = None
                THEN UNCHANGED <<pid, nUpdates, last>>
                ELSE /\ pid' = UpdateCall(variant, pid, FromInt(ret[1]), now)
                     /\ last' = Some([error |-> FromInt(ret[1]), pre |-> pid,
                                      raw |-> Unclamped(variant, pid,
                                                  FromInt(ret[1]), now).bpm])
                     /\ nUpdates' = nUpdates + 1
    /\ orch' = [orch EXCEPT !.ev = None, !.pc = "loop"]
    /\ UNCHANGED <<variant, now, threadVars, prog, events, sensor, metro,
                   appended, removed, tickLog, ioi>>

\* src/function.py:534, left operand: sim.finished; when it is False the
\* loop sleeps and comes back
MainExitFinished ==
    /\ prog = "sim"
    /\ orch.pc = "exit_finished"
    /\ orch' = [orch EXCEPT
                  !.pc = IF sensor.finished THEN "exit_empty" ELSE "loop"]
    /\ UNCHANGED <<pidVars, matcherVars, threadVars, prog, events, sensor,
                   metro, appended, removed, tickLog, ioi>>

\* the break taken on sim.finished alone
MainExitUntested ==
    /\ prog = "sim"
    /\ orch.pc = "exit_empty"
    /\ orch' = [orch EXCEPT !.how = "break", !.pc = "stop_sensor"]
    /\ UNCHANGED <<pidVars, matcherVars, threadVars, prog, events, sensor,
                   metro, appended, removed, tickLog, ioi>>

\* src/function.py:534-535, right operand: not events, and the break
MainExitEmpty ==
    /\ prog = "sim"
    /\ orch.pc = "exit_empty"
    /\ orch' = IF events = << >>
                 THEN [orch EXCEPT !.how = "break", !.pc = "stop_sensor"]
                 ELSE [orch EXCEPT !.pc = "loop"]
    /\ UNCHANGED <<pidVars, matcherVars, threadVars, prog, events, sensor,
                   metro, appended, removed, tickLog, ioi>>

\* KeyboardInterrupt raised in the main thread anywhere inside the try
\* block (src/main.py:331, src/function.py:539)
MainInterrupt ==
    /\ orch.pc \in {"loop", "pop", "process", "exit_finished", "exit_empty"}
    /\ orch' = [orch EXCEPT !.how = "KeyboardInterrupt", !.pc = "stop_sensor"]
    /\ UNCHANGED <<pidVars, matcherVars, threadVars, prog, events, sensor,
                   metro, appended, removed, tickLog, ioi>>

\* src/main.py:335 and src/function.py:543: sensor.stop() / sim.stop()
MainStopSensor ==
    /\ orch.pc = "stop_sensor"
    /\ sensor' = Stop(sensor)
    /\ orch' = [orch EXCEPT !.pc = "stop_metro"]
    /\ UNCHANGED <<pidVars, matcherVars, threadVars, prog, events, metro,
                   appended, removed, tickLog, ioi>>

\* src/main.py:336 and src/function.py:544: metro.stop()
MainStopMetro ==
    /\ orch.pc = "stop_metro"
    /\ metro' = Stop(metro)
    /\ orch' = [orch EXCEPT !.pc = "join_sensor"]
    /\ UNCHANGED <<pidVars, matcherVars, threadVars, prog, events, sensor,
                   appended, removed, tickLog, ioi>>

\* src/main.py:337 and src/function.py:545: the join returns once the
\* sensor thread has ended
MainJoinSensor ==
    /\ orch.pc = "join_sensor"
    /\ sensor.pc = "done"
    /\ orch' = [orch EXCEPT !.pc = "join_metro"]
    /\ UNCHANGED <<pidVars, matcherVars, threadVars, prog, events, sensor,
                   metro, appended, removed, tickLog, ioi>>

\* src/main.py:338-339 and src/function.py:546-547: the join returns once
\* the metronome thread has ended, and main() returns
MainJoinMetro ==
    /\ orch.pc = "join_metro"
    /\ metro.pc = "done"
    /\ orch' = [orch EXCEPT !.pc = "closed"]
    /\ UNCHANGED <<pidVars, matcherVars, threadVars, prog, events, sensor,
                   metro, appended, removed, tickLog, ioi>>

----------------------------------------------------------------------------
(* SimpleMetronome.run (src/main.py:253-266, src/function.py:457-469).     *)

\* 60 s, in the unit in which n ticks times a bpm is counted
SixtySeconds == Scale(60, Bpm(TicksPerSecond))

\* the longest interval told apart, in ticks
IntervalCap == 131072

\* n ticks are at least 60 / bpm seconds: n * bpm >= 60 s
Reaches(n, bpm) ==
    \E product \in { Scale(n, bpm) } :
        \E short \in { Sub(SixtySeconds, product) } : Sign(short) <= 0

\* the least n in lo+1..hi that reaches 60 / bpm, hi if there is none, by
\* bisection
RECURSIVE LeastTicks(_, _, _)
LeastTicks(lo, hi, bpm) ==
    IF hi - lo <= 1 THEN hi
    ELSE CHOOSE n \in { IF Reaches(mid, bpm) THEN LeastTicks(lo, mid, bpm)
                                             ELSE LeastTicks(mid, hi, bpm) :
                            mid \in { (lo + hi) \div 2 } } : TRUE

\* line 261: interval = 60.0 / bpm, rounded up to a whole tick (the clock
\* is read in whole ticks, so now >= next_tick is decided alike)
Interval(bpm) == LeastTicks(0, IntervalCap, bpm)

\* the test of line 257 letting a bpm of 0 through
SilentBelowZero(bpm) == Sign(bpm) < 0

\* line 257: if bpm <= 0
Silent(bpm) == Sign(bpm) <= 0

\* the test of line 263 made with > in place of >=
TickDueAfter(t, next_tick) == t > next_tick

\* line 263: if now >= next_tick
TickDue(t, next_tick) == t >= next_tick

\* line 265 with the interval left out
NextTickNow(t, interval) == t

\* line 265: next_tick = now + interval
NextTick(t, interval) == t + interval

\* line 254: next_tick = time.time()
MetroRun ==
    /\ metro.pc = "run"
    /\ metro' = [metro EXCEPT !.next_tick = Some(now), !.pc = "test"]
    /\ UNCHANGED <<pidVars, matcherVars, threadVars, prog, events, sensor,
                   orch, appended, removed, tickLog, ioi>>

\* the loop going on to another pass whatever self.running is
MetroLoopTestAlways ==
    /\ metro.pc = "test"
    /\ metro' = [metro EXCEPT !.pc = "body"]
    /\ UNCHANGED <<pidVars, matcherVars, threadVars, prog, events, sensor,
                   orch, appended, removed, tickLog, ioi>>

\* line 255: while self.running
MetroLoopTest ==
    /\ metro.pc = "test"
    /\ metro' = [metro EXCEPT !.pc = IF metro.running THEN "body" ELSE "done"]
    /\ UNCHANGED <<pidVars, matcherVars, threadVars, prog, events, sensor,
                   orch, appended, removed, tickLog, ioi>>

\* lines 256-266: bpm = self.get_bpm(); a bpm <= 0 makes the loop sleep
\* 10 ms and come back; otherwise the interval is computed and the clock
\* is read: at or past next_tick a tick is printed and next_tick is moved
\* one interval past now; then the loop sleeps 1 ms and comes back
MetroBody ==
    /\ metro.pc = "body"
    /\ IF ~Silent(pid.bpm) /\ TickDue(now, metro.next_tick[1])
         THEN /\ metro' = [metro EXCEPT
                    !.bpm = Some(pid.bpm),
                    !.next_tick = Some(NextTick(now, Interval(pid.bpm))),
                    !.pc = "test"]
              /\ tickLog' = (IF tickLog = << >> THEN << >>
                             ELSE << tickLog[Len(tickLog)] >>)
                            \o << [t |-> now, bpm |-> pid.bpm] >>
         ELSE /\ metro' = [metro EXCEPT !.bpm = Some(pid.bpm), !.pc = "test"]
              /\ UNCHANGED tickLog
    /\ UNCHANGED <<pidVars, matcherVars, threadVars, prog, events, sensor,
                   orch, appended, removed, ioi>>

----------------------------------------------------------------------------
(* The two programs.                                                       *)

NextMetronome ==
    \/ MetroRun
    \/ MetroLoopTest
    \/ MetroBody

\* the finally block of main()
MainShutdown ==
    \/ MainStopSensor
    \/ MainStopMetro
    \/ MainJoinSensor
    \/ MainJoinMetro

NextMain ==
    \/ MainLoad
    \/ MainStartSensor
    \/ MainStartMetro
    \/ MainGetEvent
    \/ MainWhileEvents
    \/ MainPopleft
    \/ MainProcess
    \/ MainExitFinished
    \/ MainExitEmpty
    \/ MainInterrupt
    \/ MainShutdown

NextSimulatedSensor ==
    \/ SimRun
    \/ SimFor
    \/ SimWait
    \/ SimCheck
    \/ SimAppend
    \/ SimFinish

NextSensorReader ==
    \/ SensorRun
    \/ SensorOpened
    \/ SensorLoopTest
    \/ SensorRead
    \/ SensorClose

NextSession ==
    \/ NextMain
    \/ NextSimulatedSensor
    \/ NextSensorReader
    \/ NextMetronome

SpecSession == InitSession /\ [][NextSession]_vars

\* The interpreter keeps switching between the threads that can run, so
\* neither main() in its finally block nor the sensor thread nor the
\* metronome thread is held up for ever; whether Ctrl+C is pressed is up
\* to the user.
SpecSessionFair ==
    /\ SpecSession
    /\ WF_vars(MainShutdown)
    /\ WF_vars(NextSimulatedSensor)
    /\ WF_vars(NextSensorReader)
    /\ WF_vars(NextMetronome)

----------------------------------------------------------------------------
(* The metronome thread by itself (src/main.py:242-269): the clock runs,   *)
(* the owner of the controller calls pid.update, and the owner of the      *)
(* metronome calls stop().                                                 *)

\* the clock advances on its own up to MaxClock
MaxClock == 10000
\* most update calls while the metronome runs
MaxRetunes == 2

\* the initial tempo is the bpm line of the reference file; a file may
\* say 0
MetroTempos == {0, 120}

\* errors handed to update: 20 ms early, and 1 s late
RetuneErrors == { FromInt(0 - 200), Seconds(1) }

InitMetro ==
    /\ variant = "main"
    /\ \E bpm \in MetroTempos : pid = NewPID(SessionConfig("serial", bpm))
    /\ now = 0
    /\ nUpdates = 0
    /\ last = None
    /\ MatcherIdle
    /\ ThreadsIdle
    /\ IOIIdle
    /\ prog = "none"
    /\ events = << >>
    /\ sensor = NoSensor
    /\ metro = [NewMetronome EXCEPT !.pc = "run"]
    /\ orch = [pc |-> "none", ev |-> None, how |-> "none"]
    /\ appended = << >>
    /\ removed = << >>
    /\ tickLog = << >>

\* time passes
Tick ==
    /\ now + ClockGranule <= MaxClock
    /\ now' = now + ClockGranule
    /\ UNCHANGED <<variant, pid, nUpdates, last, matcherVars, threadVars,
                   sessionVars, ioi>>

\* src/main.py:326: one whole call pid.update(error)
Retune ==
    \E error \in RetuneErrors :
        /\ nUpdates < MaxRetunes
        /\ pid' = UpdateCall(variant, pid, error, now)
        /\ last' = Some([error |-> error, pre |-> pid,
                         raw |-> Unclamped(variant, pid, error, now).bpm])
        /\ nUpdates' = nUpdates + 1
        /\ UNCHANGED <<variant, now, matcherVars, threadVars, sessionVars, ioi>>

\* src/main.py:336: metro.stop(), at any moment and any number of times
MetroStopCall ==
    /\ metro' = Stop(metro)
    /\ UNCHANGED <<pidVars, matcherVars, threadVars, prog, events, sensor,
                   orch, appended, removed, tickLog, ioi>>

NextMetro ==
    \/ Tick
    \/ Retune
    \/ MetroStopCall
    \/ NextMetronome

SpecMetro == InitMetro /\ [][NextMetro]_vars

\* the interpreter keeps scheduling the metronome thread
SpecMetroFair == SpecMetro /\ WF_vars(NextMetronome)

\* the metronome thread keeps being scheduled and the clock keeps
\* advancing (up to MaxClock)
SpecMetroLive == SpecMetro /\ WF_vars(NextMetronome) /\ WF_vars(Tick)

----------------------------------------------------------------------------
(* RealtimeIOI (src/function.py:40-80).  Times are in ticks of 1e-4 s.     *)

\* the constructor calls: the defaults time_unit = 0.01 s and
\* debounce_time = 0.05 s, a debounce of 0, and a time_unit of 1e-4 s
IOIConfigs ==
    { [time_unit |-> 100, debounce_time |-> 500],
      [time_unit |-> 100, debounce_time |-> 0],
      [time_unit |-> 1, debounce_time |-> 500] }

\* the sample indices handed to process_sample_at_index, in any order
\* and any number of times, and the sample values
SampleIndices == { 0 - 3, 0, 5, 6, 60, 600 }
SampleValues == { 0, 1 }

\* RealtimeIOI.__init__, lines 46-52
NewRealtimeIOI(c) ==
    [ time_unit |-> c.time_unit, debounce_time |-> c.debounce_time,
      latest_index |-> 0 - 1, A2 |-> << >>, B2 |-> << >>,
      last_onset_time |-> None ]

\* process_sample_at_index taking every 1 for an onset
ProcessSampleNoDebounce(r, index, value) ==
    IF value = 1
        THEN [r EXCEPT
                !.A2 = Append(r.A2, index * r.time_unit),
                !.B2 = IF r.A2 = << >> THEN r.B2
                       ELSE Append(r.B2, index * r.time_unit
                                             - r.last_onset_time[1]),
                !.last_onset_time = Some(index * r.time_unit),
                !.latest_index = index]
        ELSE [r EXCEPT !.latest_index = index]

\* process_sample_at_index, lines 54-74: t = index * time_unit; a value of
\* 1 is an onset when there was none before or the last one lies more
\* than debounce_time back; the onset is appended to A2, and, unless it is
\* the first, its distance from the last onset to B2
ProcessSampleAtIndex(r, index, value) ==
    IF /\ value = 1
       /\ \/ r.last_onset_time = None
          \/ index * r.time_unit - r.last_onset_time[1] > r.debounce_time
        THEN [r EXCEPT
                !.A2 = Append(r.A2, index * r.time_unit),
                !.B2 = IF r.A2 = << >> THEN r.B2
                       ELSE Append(r.B2, index * r.time_unit
                                             - r.last_onset_time[1]),
                !.last_onset_time = Some(index * r.time_unit),
                !.latest_index = index]
        ELSE [r EXCEPT !.latest_index = index]

InitIOI ==
    /\ PIDIdle
    /\ MatcherIdle
    /\ ThreadsIdle
    /\ SessionIdle
    /\ \E c \in IOIConfigs : ioi = NewRealtimeIOI(c)

\* one call process_sample_at_index(index, value)
ProcessSample ==
    \E index \in SampleIndices, value \in SampleValues :
        /\ ioi' = ProcessSampleAtIndex(ioi, index, value)
        /\ UNCHANGED <<pidVars, matcherVars, threadVars, sessionVars>>

NextIOI == ProcessSample

SpecIOI == InitIOI /\ [][NextIOI]_vars

----------------------------------------------------------------------------
(* Properties of PIDController.update, under SpecPID.                      *)

\* the last call's record, once a call has returned
LastUpdate == last[1]

\* the last call took a clamping branch (line 108 or line 111 was true)
LastClamped ==
    \/ Less(LastUpdate.raw, pid.bpm_min)
    \/ Less(pid.bpm_max, LastUpdate.raw)

\* the controller was built as PID(Kp=10, Ki=0, Kd=0, 120, 40, 240)
ScenarioPID ==
    /\ variant = "main"
    /\ pid.Kp = 10 /\ pid.Ki = 0 /\ pid.Kd = 0
    /\ pid.bpm_min = Bpm(40) /\ pid.bpm_max = Bpm(240)

\* C1: whenever an update call has returned, whatever the errors (up to
\* +/-1e6 s) and the call times were, bpm_min <= bpm <= bpm_max.
C1_TempoWithinBounds ==
    nUpdates > 0 => Leq(pid.bpm_min, pid.bpm) /\ Leq(pid.bpm, pid.bpm_max)

\* a call with error +1e6 s drove self.bpm above bpm_max and returned bpm_max
C1_Witness ==
    /\ nUpdates > 1
    /\ LastUpdate.error = Seconds(1000000)
    /\ Less(pid.bpm_max, LastUpdate.raw)
    /\ pid.bpm = pid.bpm_max

\* C8: a call that clamps the tempo to bpm_min or bpm_max returns with
\* integral exactly 0.
C8_ClampResetsIntegral ==
    nUpdates > 0 /\ LastClamped => pid.integral = Zero

\* a clamping call whose accumulated integral was not 0 before the reset
C8_Witness ==
    /\ nUpdates > 0
    /\ LastClamped
    /\ LastUpdate.pre.integral # Zero
    /\ Sign(LastUpdate.error) = Sign(LastUpdate.pre.integral)
    /\ pid.integral = Zero

\* C9: the first call of a controller of src/main.py uses dt = 0.01 s (100
\* ticks): bpm' = clamp(bpm + Kp*error + Ki*integral' + Kd*(error-prev)/dt)
\* with integral' = integral + error*dt, which is also the integral stored
\* when the call does not clamp; and the scenario controller's update(1.0)
\* returns exactly 130.
C9_FirstUpdate ==
    nUpdates = 1 /\ variant = "main" =>
        LET e == LastUpdate.error
            p == LastUpdate.pre
            I == Add(p.integral, Scale(100, e))
            D == Quot(Scale(10000, Scale(10000, Sub(e, p.prev_error))), 100)
            t == Add(p.bpm, Add(Add(Scale(p.Kp, Scale(10000, e)),
                                    Scale(p.Ki, I)), Scale(p.Kd, D)))
        IN  /\ pid.bpm = IF Less(t, p.bpm_min) THEN p.bpm_min
                         ELSE IF Less(p.bpm_max, t) THEN p.bpm_max ELSE t
            /\ (Leq(p.bpm_min, t) /\ Leq(t, p.bpm_max) => pid.integral = I)
            /\ (ScenarioPID /\ p.bpm = Bpm(120) /\ e = Seconds(1)
                    => pid.bpm = Bpm(130))

\* the scenario controller after its first call, update(1.0): bpm is 130
C9_Witness ==
    /\ nUpdates = 1
    /\ ScenarioPID
    /\ LastUpdate.pre.bpm = Bpm(120)
    /\ LastUpdate.error = Seconds(1)
    /\ pid.bpm = Bpm(130)

\* C10 as stated: in the scenario (Ki = 0), update(1.0) leaves the stored
\* integral as it was.
C10_IntegralUnchanged ==
    nUpdates = 1 /\ ScenarioPID /\ LastUpdate.error = Seconds(1)
        => pid.integral = LastUpdate.pre.integral

\* C10 amended: in the scenario (Ki = 0), the first call update(1.0) adds
\* error*dt = 1.0 * 0.01 to the stored integral (0 becomes 0.01 s^2, that
\* is 1000000 tick^2); the integral term Ki*integral adds nothing to the
\* tempo, which rises by exactly 10 to 130.
C10_IntegralAccumulates ==
    nUpdates = 1 /\ ScenarioPID /\ LastUpdate.pre.bpm = Bpm(120)
                 /\ LastUpdate.error = Seconds(1)
        => /\ LastUpdate.pre.integral = Zero
           /\ pid.integral = FromInt(1000000)
           /\ pid.bpm = Add(LastUpdate.pre.bpm, Bpm(10))

\* the scenario controller after update(1.0), its integral no longer 0
C10_Witness ==
    /\ nUpdates = 1
    /\ ScenarioPID
    /\ LastUpdate.error = Seconds(1)
    /\ pid.integral # Zero
    /\ pid.Ki = 0

----------------------------------------------------------------------------
(* Properties of BeatMatcher.compute_error, under SpecMatcher.             *)

\* the last call's record, once a call has been made
LastMatch == lastCall[1]

\* the value compute_error returns when a track has no beat left
NoReferenceLeft == None

\* the flagged indices of a track at or after index from
BeatsFrom(arr, from) == { i \in 0..(Len(arr) - 1) : i >= from /\ arr[i + 1] = 1 }

C4_OneToOneForward ==
    /\ \A i, j \in DOMAIN matchLog : i # j => matchLog[i] # matchLog[j]
    /\ (lastCall # None /\ LastMatch.idx # None
            => LastMatch.idx[1] >= LastMatch.start[1])

\* a second event of an instrument matched, past the beat the first consumed
C4_Witness ==
    /\ Len(matchLog) >= 2
    /\ lastCall # None
    /\ LastMatch.idx # None
    /\ LastMatch.start[1] > 0
    /\ \E i \in DOMAIN matchLog :
           matchLog[i][1] = LastMatch.inst /\ matchLog[i][2] < LastMatch.start[1]

\* C5: a call for a known instrument succeeds exactly when a flagged index
\* i >= next_idx exists; it then selects the smallest one, returns
\* t_actual - i*dt and sets next_idx to i + 1.  With track [1,0,0,1,0,0]
\* and dt = 0.5 s, the event at 0.55 s matches index 0 with error 0.55 s and
\* the next event at 1.0 s matches index 3 (t_ref 1.5 s) with error -0.5 s.
C5_SmallestFlaggedIndex ==
    lastCall # None /\ LastMatch.start # None =>
        LET inst == LastMatch.inst
            from == LastMatch.start[1]
            beats == BeatsFrom(matcher.arr[inst], from)
        IN  /\ (LastMatch.ret # None) = (beats # {})
            /\ LastMatch.ret # None =>
                   /\ LastMatch.idx[1] \in beats
                   /\ \A i \in beats : LastMatch.idx[1] <= i
                   /\ LastMatch.ret[1]
                          = LastMatch.t_actual - LastMatch.idx[1] * matcher.dt
                   /\ matcher.next_idx[inst] = LastMatch.idx[1] + 1
            /\ (/\ matcher.arr[inst] = <<1, 0, 0, 1, 0, 0>>
                /\ matcher.dt = 5000
                /\ from = 0
                /\ LastMatch.t_actual = 5500)
                   => LastMatch.idx = Some(0) /\ LastMatch.ret = Some(5500)
            /\ (/\ matcher.arr[inst] = <<1, 0, 0, 1, 0, 0>>
                /\ matcher.dt = 5000
                /\ from = 1
                /\ LastMatch.t_actual = 10000)
                   => /\ LastMatch.idx = Some(3)
                      /\ LastMatch.ret = Some(0 - 5000)
                      /\ matcher.next_idx[inst] = 4

\* the scenario's second event: 1.0 s matched to index 3, error -0.5 s
C5_Witness ==
    /\ lastCall # None
    /\ matcher.arr["kick"] = <<1, 0, 0, 1, 0, 0>>
    /\ matcher.dt = 5000
    /\ matchLog = << <<"kick", 0>>, <<"kick", 3>> >>
    /\ LastMatch.inst = "kick"
    /\ LastMatch.t_actual = 10000
    /\ LastMatch.ret = Some(0 - 5000)

\* C6: once compute_error has returned NoReferenceLeft for an instrument
\* (in particular once its next_idx equals the track's length), a later
\* call for it returns NoReferenceLeft and leaves its next_idx unchanged.
C6_ExhaustionTerminal ==
    lastCall # None /\ LastMatch.start # None =>
        LET inst == LastMatch.inst
        IN  \/ inst \in LastMatch.exhaustedBefore
            \/ LastMatch.start[1] = Len(matcher.arr[inst])
            => /\ LastMatch.ret = NoReferenceLeft
               /\ matcher.next_idx[inst] = LastMatch.start[1]

\* a call for an instrument that had already been refused, its track
\* consumed to the end by earlier matches
C6_Witness ==
    /\ lastCall # None
    /\ LastMatch.inst \in LastMatch.exhaustedBefore
    /\ LastMatch.start[1] = Len(matcher.arr[LastMatch.inst])
    /\ \E i \in DOMAIN matchLog : matchLog[i][1] = LastMatch.inst
    /\ LastMatch.ret = NoReferenceLeft

\* C7 as stated: a call with an instrument the BeatMap does not hold
\* returns something the caller can tell from NoReferenceLeft.
C7_UnknownInstrumentDistinct ==
    lastCall # None /\ LastMatch.inst \notin DOMAIN matcher.arr
        => LastMatch.ret # NoReferenceLeft

----------------------------------------------------------------------------
(* Properties of the shared bpm, under SpecThreads.                        *)

\* C2 as stated: once the first update has returned, every value the
\* metronome obtains through get_bpm lies within [bpm_min, bpm_max],
\* whatever the interleaving; it never sees update's unclamped store.
C2_MetronomeSeesClampedTempo ==
    seen_bpm # None /\ seen_bpm[1].after >= 1 =>
        /\ Leq(pid.bpm_min, seen_bpm[1].bpm)
        /\ Leq(seen_bpm[1].bpm, pid.bpm_max)

----------------------------------------------------------------------------
(* Sign of the correction, under SpecSign.                                 *)

StrictlyInside(p) == Less(p.bpm_min, p.bpm) /\ Less(p.bpm, p.bpm_max)

\* C11: with Kp > 0 and Ki = Kd = 0, an update called while the tempo is
\* strictly inside the bounds never lowers the tempo on a positive error
\* and never raises it on a negative error, for every controller class
C11_SignConvention ==
    (/\ last # None
     /\ pid.Kp > 0 /\ pid.Ki = 0 /\ pid.Kd = 0
     /\ StrictlyInside(LastUpdate.pre))
        => /\ Sign(LastUpdate.error) > 0 => Leq(LastUpdate.pre.bpm, pid.bpm)
           /\ Sign(LastUpdate.error) < 0 => Leq(pid.bpm, LastUpdate.pre.bpm)

----------------------------------------------------------------------------
(* Properties of a session, under SpecSession.                             *)

\* C12: whatever the interleaving of the sensor thread's appends and
\* main()'s poplefts, the events main() has taken are the first events
\* appended, in the order appended, each once, and the others still wait
\* in the deque.
C12_QueueFifoExactlyOnce == removed \o events = appended

\* main() has taken an event while a later one was already waiting
C12_Witness ==
    /\ Len(removed) >= 1
    /\ Len(events) >= 1
    /\ removed \o events = appended
    /\ events[1] # removed[Len(removed)]

\* C13: main()'s loop leaves through its break only when the sensor has
\* set finished and the deque is empty, and then every event ever
\* appended has been taken and handed to compute_error.
C13_NormalExitLeavesNothing ==
    orch.how = "break" =>
        /\ sensor.finished
        /\ events = << >>
        /\ removed = appended
        /\ orch.ev = None
        /\ nEvents = Len(appended)

\* the loop has left through its break after the whole schedule went
\* through the deque
C13_Witness ==
    /\ orch.how = "break"
    /\ Len(appended) = Len(sensor.schedule)
    /\ nEvents >= 2

\* C14: once main()'s loop has ended, by its break or by Ctrl+C, main()
\* stops both threads, both run loops end, both joins return and the
\* session is closed (under SpecSessionFair).
C14_ShutdownTerminates ==
    (orch.pc = "stop_sensor") ~> (orch.pc = "closed")

\* C15: once sensor.stop() has returned, whenever the SensorReader's run
\* loop tests self.running it reads False, so that the loop ends there,
\* also when stop() came before the reader thread finished open().
C15_StopObserved ==
    (/\ prog = "serial"
     /\ orch.pc \in {"stop_metro", "join_sensor", "join_metro", "closed"}
     /\ sensor.pc = "loop")
        => ~sensor.running

\* C17: stop() is idempotent on the sensor objects (SensorReader,
\* SimulatedSensor) and on the metronome: in every state of a session a
\* second call leaves the object exactly as the first call left it, with
\* running False, so the run loop goes on the same way after one call as
\* after two.
C17_StopIdempotent ==
    \A obj \in {sensor, metro} :
        /\ Stop(Stop(obj)) = Stop(obj)
        /\ ~Stop(obj).running

\* stop() has been called on both objects while both run loops are still
\* going, and one more call on either changes nothing
C17_Witness ==
    /\ orch.pc = "join_sensor"
    /\ sensor.pc \notin {"none", "done"}
    /\ metro.pc \notin {"none", "done"}
    /\ Stop(sensor) = sensor
    /\ Stop(metro) = metro

\* C20: reference data with a time per slot dt <= 0, or with every track
\* empty, is rejected before anything is started: once the sensor thread
\* or the metronome thread has been started, dt > 0 and some track is not
\* empty.
C20_MalformedRejected ==
    (sensor.pc # "none" \/ metro.pc # "none") =>
        /\ matcher.dt > 0
        /\ \E k \in {"kick", "snare", "hit"} : matcher.arr[k] # << >>

----------------------------------------------------------------------------
(* Properties of the metronome, under SpecMetro and SpecMetroFair.         *)

\* C16: once stop() has been called on the metronome, self.running stays
\* False; the loop test then only leads out of the loop, so that at most
\* the pass in progress is finished, no tick follows it, the ended thread
\* stays ended, and the loop does end (under SpecMetroFair).
C16_StoppedIsTerminal ==
    /\ [][ ~metro.running =>
             /\ ~metro'.running
             /\ metro.pc \in {"test", "done"} =>
                    (metro'.pc \in {"test", "done"} /\ tickLog' = tickLog)
             /\ metro.pc = "done" => metro'.pc = "done" ]_vars
    /\ (~metro.running) ~> (metro.pc = "done")

\* stop() came during a pass that then printed a tick, and the loop ended
C16_Witness ==
    /\ ~metro.running
    /\ metro.pc = "done"
    /\ Len(tickLog) = 2
    /\ metro.next_tick[1] > now

\* C18: two ticks in a row are at least 60 / T seconds apart, T being the
\* tempo read in the pass that printed the earlier one, also when the
\* tempo was changed between them.
C18_TickSpacing ==
    Len(tickLog) = 2 =>
        /\ tickLog[2].t >= tickLog[1].t
        /\ Leq(SixtySeconds, Scale(tickLog[2].t - tickLog[1].t, tickLog[1].bpm))

\* the tempo was doubled right at the first tick, and the second tick
\* still came a whole old interval later
C18_Witness ==
    /\ Len(tickLog) = 2
    /\ tickLog[1].bpm = Bpm(120)
    /\ tickLog[2].bpm = Bpm(240)
    /\ nUpdates = 1
    /\ pid.prev_time = Some(tickLog[1].t)
    /\ tickLog[2].t - tickLog[1].t = 5000

\* C19: a pass of the loop that reads a tempo <= 0 prints no tick, leaves
\* next_tick alone and goes back to the loop test; the loop is left only
\* after stop().
C19_NonPositiveTempoSilent ==
    /\ [][ (metro.pc = "body" /\ Sign(pid.bpm) <= 0 /\ metro'.pc # "body") =>
             /\ metro'.pc = "test"
             /\ metro'.next_tick = metro.next_tick
             /\ tickLog' = tickLog ]_vars
    /\ [](metro.pc = "done" => ~metro.running)

\* a pass has read the tempo 0 after the time of next_tick, and nothing
\* was printed
C19_Witness ==
    /\ metro.pc = "test"
    /\ metro.running
    /\ metro.bpm # None
    /\ Sign(metro.bpm[1]) <= 0
    /\ Sign(pid.bpm) <= 0
    /\ now > metro.next_tick[1]
    /\ tickLog = << >>

----------------------------------------------------------------------------
(* Further properties of BeatMatcher, under SpecMatcher.                   *)

\* C21: for every instrument, in every reachable state,
\* 0 <= next_idx <= len(track); next_idx is 0 before the first
\* compute_error call; and no compute_error call decreases it.
C21_CursorRange ==
    /\ [](\A k \in DOMAIN matcher.next_idx :
             /\ 0 <= matcher.next_idx[k]
             /\ matcher.next_idx[k] <= Len(matcher.arr[k])
             /\ nEvents = 0 => matcher.next_idx[k] = 0)
    /\ [][\A k \in DOMAIN matcher.next_idx :
             matcher'.next_idx[k] >= matcher.next_idx[k]]_vars

\* the last beat of a track has been consumed: the cursor stands at
\* len(track), past a first beat matched earlier
C21_Witness ==
    /\ lastCall # None
    /\ LastMatch.idx # None
    /\ LastMatch.start[1] > 0
    /\ matcher.next_idx[LastMatch.inst] = Len(matcher.arr[LastMatch.inst])

\* the successful matches of an instrument so far, in order
MatchesOf(inst) == SelectSeq(matchLog, LAMBDA e : e[1] = inst)

\* C24: whatever the timestamps of the events, the k-th successful
\* compute_error of an instrument matches the k-th index holding 1 in
\* its track (the k-th time of make_A_from_binary), and an instrument
\* has no more successful matches than its track holds ones.
C24_KthMatchIsKthBeat ==
    \A inst \in DOMAIN matcher.arr :
        /\ Len(MatchesOf(inst)) <= Len(make_A_from_binary(matcher.arr[inst], 1))
        /\ \A k \in 1..Len(MatchesOf(inst)) :
               /\ MatchesOf(inst)[k][2] =
                      make_A_from_binary(matcher.arr[inst], 1)[k]
               /\ MatchesOf(inst)[k][2] * matcher.dt =
                      make_A_from_binary(matcher.arr[inst], matcher.dt)[k]

\* the second match of an instrument, made by an event stamped 0 s, long
\* before the reference time of the beat it is matched to
C24_Witness ==
    /\ lastCall # None
    /\ LastMatch.idx # None
    /\ LastMatch.t_actual = 0
    /\ LastMatch.idx[1] * matcher.dt >= 10000
    /\ Len(MatchesOf(LastMatch.inst)) = 2
    /\ Len(make_A_from_binary(matcher.arr[LastMatch.inst], 1)) = 2

\* C28: a compute_error call changes at most the cursor of its own
\* instrument: the cursors of the other instruments, the tracks and dt
\* stay as they were, and a call for an unknown instrument changes
\* nothing of the matcher.
C28_OnlyOwnCursor ==
    [][ nEvents' = nEvents + 1 =>
          /\ matcher'.arr = matcher.arr
          /\ matcher'.dt = matcher.dt
          /\ \A k \in DOMAIN matcher.next_idx :
                 k # lastCall'[1].inst =>
                     matcher'.next_idx[k] = matcher.next_idx[k]
          /\ lastCall'[1].inst \notin DOMAIN matcher.arr =>
                 matcher' = matcher ]_vars

\* a successful call has moved its own cursor while another instrument's
\* cursor, moved earlier, stands where it stood
C28_Witness ==
    /\ lastCall # None
    /\ LastMatch.idx # None
    /\ \E k \in DOMAIN matcher.next_idx :
           /\ k # LastMatch.inst
           /\ matcher.next_idx[k] > 0
           /\ matcher.next_idx[k] # matcher.next_idx[LastMatch.inst]

----------------------------------------------------------------------------
(* Further properties of PIDController.update, under SpecPID.              *)

C25_StepAtLeastEpsilon ==
    (last # None /\ last[1].pre.prev_time # None) =>
        /\ StepDt(last[1].pre, now) = Max(now - last[1].pre.prev_time[1], Epsilon)
        /\ StepDt(last[1].pre, now) >= Epsilon
        /\ StepDt(last[1].pre, now) > 0
        /\ pid.bpm = last[1].raw =>
               pid.integral =
                   Add(last[1].pre.integral,
                       Scale(Max(now - last[1].pre.prev_time[1], Epsilon),
                             last[1].error))

\* the clock was set back between two calls, and the later call, which
\* did not clamp, integrated its error over 1e-4 s
C25_Witness ==
    /\ last # None
    /\ last[1].pre.prev_time # None
    /\ now < last[1].pre.prev_time[1]
    /\ last[1].error = Seconds(1)
    /\ pid.bpm = last[1].raw
    /\ pid.integral = Add(last[1].pre.integral, Scale(Epsilon, Seconds(1)))

----------------------------------------------------------------------------
(* Further properties of a session, under SpecSession.                     *)

\* C22: an event for which compute_error returns NoReferenceLeft is
\* dropped without a call of update: the controller (bpm, integral,
\* prev_error, prev_time) is as it was; and an event of an instrument
\* whose track has a beat left is matched and updates the controller,
\* whichever instruments have run out before.
C22_ExhaustedEventDropped ==
    [][ nEvents' = nEvents + 1 =>
          /\ lastCall'[1].ret = NoReferenceLeft =>
                 (pid' = pid /\ nUpdates' = nUpdates /\ last' = last)
          /\ BeatsFrom(matcher.arr[lastCall'[1].inst],
                       matcher.next_idx[lastCall'[1].inst]) # {} =>
                 /\ lastCall'[1].ret # NoReferenceLeft
                 /\ nUpdates' = nUpdates + 1
                 /\ pid'.prev_time = Some(now)
                 /\ pid'.prev_error = FromInt(lastCall'[1].ret[1]) ]_vars

\* the first event was dropped, its instrument having no beat; the second,
\* of another instrument, was matched and updated the controller
C22_Witness ==
    /\ nEvents = 2
    /\ nUpdates = 1
    /\ lastCall # None
    /\ LastMatch.ret # NoReferenceLeft
    /\ LastMatch.exhaustedBefore # {}
    /\ LastMatch.inst \notin LastMatch.exhaustedBefore
    /\ pid.prev_time # None

\* C27: the run method of SimulatedSensor sets finished on every way out
\* (no schedule, stop() seen at the head of the for loop or after the
\* wait, schedule used up), so that an ended thread has finished True;
\* and finished, once True, stays True.
C27_FinishedOnEveryExit ==
    /\ []((prog = "sim" /\ sensor.pc = "done") => sensor.finished)
    /\ [][sensor.finished => sensor'.finished]_vars

\* stop() was seen after the wait for a strike that was never appended,
\* and the thread ended with finished True
C27_Witness ==
    /\ prog = "sim"
    /\ sensor.pc = "done"
    /\ sensor.finished
    /\ ~sensor.running
    /\ sensor.target # None
    /\ sensor.k <= Len(sensor.schedule)

\* C29: in the program with the SimulatedSensor (src/function.py:478-547)
\* every event taken from the queue is matched, none gets
\* NoReferenceLeft, and the i-th event is matched to the slot the i-th
\* pair of the schedule was made from: same instrument, same reference
\* time.
C29_SimEventsMatchTheirSlot ==
    prog = "sim" =>
        /\ exhausted = {}
        /\ Len(matchLog) = nEvents
        /\ \A i \in 1..Len(matchLog) :
               /\ matchLog[i][1] = sensor.schedule[i].inst
               /\ matchLog[i][2] * matcher.dt = sensor.schedule[i].t_ref

----------------------------------------------------------------------------
(* Progress of the metronome, under SpecMetroLive.                         *)

\* the loop is going with a next_tick the clock can still reach
Scheduled ==
    /\ metro.pc \in {"test", "body"}
    /\ metro.next_tick # None
    /\ ReadingFrom(metro.next_tick[1]) <= MaxClock

\* the clock has reached next_tick
Due == Scheduled /\ now >= metro.next_tick[1]

\* the last tick printed moved next_tick one interval past its own time,
\* the least number n of clock ticks with n * bpm >= 60 s, and that lies
\* ahead of the clock
Rescheduled ==
    /\ tickLog # << >>
    /\ metro.next_tick # None
    /\ metro.next_tick[1] > now
    /\ tickLog[Len(tickLog)].t <= now
    /\ \E n \in { metro.next_tick[1] - tickLog[Len(tickLog)].t } :
           /\ n >= 1
           /\ Reaches(n, tickLog[Len(tickLog)].bpm)
           /\ ~Reaches(n - 1, tickLog[Len(tickLog)].bpm)

\* C26: while the metronome runs with a positive tempo and the clock
\* advances, every scheduled next_tick the clock can reach is reached
\* with the loop still waiting for it, and is then followed by a tick,
\* printed at a time >= next_tick, after which next_tick is that time
\* plus 60 / tempo; unless stop() is called or the tempo is found <= 0
\* in between.
C26_TicksKeepComing ==
    /\ Scheduled ~> (~metro.running \/ Silent(pid.bpm) \/ Due)
    /\ Due ~> (~metro.running \/ Silent(pid.bpm) \/ Rescheduled)

\* a second tick has been printed, at the time the first one scheduled
\* or later, and the third is scheduled one interval after it
C26_Witness ==
    /\ metro.running
    /\ Sign(pid.bpm) > 0
    /\ Len(tickLog) = 2
    /\ Reaches(tickLog[2].t - tickLog[1].t, tickLog[1].bpm)
    /\ metro.next_tick = Some(tickLog[2].t + Interval(tickLog[2].bpm))
    /\ metro.next_tick[1] <= MaxClock

----------------------------------------------------------------------------
(* Properties of RealtimeIOI, under SpecIOI.                               *)

\* C30: after any sequence of process_sample_at_index calls the onsets
\* A2 strictly increase, two onsets in a row lie more than debounce_time
\* apart, and B2 is the list of the differences of A2: len(B2) is
\* max(0, len(A2) - 1) and B2[i] = A2[i+1] - A2[i].
C30_OnsetsAndIntervals ==
    /\ \A i \in 1..(Len(ioi.A2) - 1) :
           /\ ioi.A2[i + 1] > ioi.A2[i]
           /\ ioi.A2[i + 1] - ioi.A2[i] > ioi.debounce_time
    /\ Len(ioi.B2) = Max(0, Len(ioi.A2) - 1)
    /\ \A i \in 1..Len(ioi.B2) : ioi.B2[i] = ioi.A2[i + 1] - ioi.A2[i]

\* three onsets recorded, and a later 1 at an index before the last
\* onset left A2 and B2 alone
C30_Witness ==
    /\ Len(ioi.A2) = 3
    /\ Len(ioi.B2) = 2
    /\ ioi.debounce_time > 0
    /\ ioi.latest_index * ioi.time_unit < ioi.A2[3]
    /\ ioi.latest_index * ioi.time_unit > ioi.A2[2]

=============================================================================
